---- MODULE Spec2Model ----
(***************************************************************************)
(* Caveman Hunt: the relay fan-out server (the `ws` server printed in the  *)
(* README, src/unnamed/part_000 lines 57-69) and the transport client      *)
(* mkBus of src/src/App.jsx.                                               *)
(*                                                                         *)
(* RelaySpec is the server: sessions connect with a request URL, send      *)
(* messages, close, and may emit an 'error' event.  RelayFairSpec adds the *)
(* fairness of the server's event loop.                                    *)
(*                                                                         *)
(* BusSpec is one relay transport handle returned by mkBus: its WebSocket  *)
(* objects, the reconnect timers with their backoff, the subscribers, and  *)
(* the calls post, on and destroy.  BusFairSpec adds the fairness of the   *)
(* browser's event loop.                                                   *)
(*                                                                         *)
(* RecvSpec is the receive path of the relay transport (ws.onmessage with  *)
(* its room filter).  LocalSpec is the BroadcastChannel / localStorage     *)
(* fallback of mkBus.  HandleSpec is one handle of either kind under on,   *)
(* off and destroy.  AppSpec is QTEApp's lobby state with the effects that *)
(* create, subscribe and destroy handles.  PlayerSpec is the player view's *)
(* cue state with the glow-gap timer.  GradeSpec applies gradeReaction and *)
(* gradeWithLeniency to bounded inputs.                                    *)
(***************************************************************************)
EXTENDS Integers, Sequences, FiniteSets, TLC

\* ------------------------------------------------------------------ bounds

\* Number of WebSocket sessions the relay server sees (each object connects once).
NSess == 3

Sess == 1..NSess

\* Number of WebSocket objects one transport handle creates before the network
\* stops failing (the last connection never fails).
MaxSocks == 8

\* Number of post(ev) calls made on a transport handle.
MaxPost == 1

\* Number of subscriber callbacks the application registers with bus.on.
NCb == 2

\* Number of browsing contexts (tabs of one browser) on the same lobby code.
NCtx == 2

Ctx == 1..NCtx

\* Number of handles the application has mkBus make.
MaxHandles == 4

\* Number of SEQ_BEGIN events a player receives.
MaxSeqs == 3

\* Reaction times, thresholds and leniency are drawn from 0..MaxMs,
\* 0..MaxThreshold and 0..MaxLeniency (in units of some milliseconds).
MaxMs == 4
MaxThreshold == 3
MaxLeniency == 2

Cbs == 1..NCb

\* ------------------------------------------------- relay server (part_000)

\* WebSocket readyState values. A session of the relay is CONNECTING until the
\* server's 'connection' event hands it to the handler.
CONNECTING == 0
OPEN == 1
CLOSING == 2
CLOSED == 3

\* Request URLs: the query string either has no `room` parameter or has one,
\* possibly empty.
Urls ==
  {[hasRoom |-> FALSE, room |-> ""]}
    \cup {[hasRoom |-> TRUE, room |-> v] : v \in {"", "A"}}

\* The record standing for "no request yet" of a session that has not connected.
NoUrl == [hasRoom |-> FALSE, room |-> "-"]

\* Frames a session may send: a well-formed envelope {room: "A", payload}
\* (its tag differs from the room of a session of the default room), and a
\* frame that is not JSON at all.
Frames ==
  {[json |-> TRUE, room |-> "A"], [json |-> FALSE, room |-> ""]}

NoFrame == [json |-> FALSE, room |-> "-"]

VARIABLES
  serverUp,    \* the node process of the relay is running
  rooms,       \* const rooms = new Map(): room id -> set of sessions
  readyState,  \* ws.readyState of every session
  reqUrl,      \* req.url each session connected with
  peersKey,    \* the room whose Set the session's handlers captured as `peers`
  last,        \* the last 'message' event handled: sender, frame, sends made,
               \* and the sessions that were already CLOSED when it was handled
  errored,     \* the sessions whose WebSocket emitted 'error'
  \* --- one relay transport handle made by mkBus (App.jsx 45-72)
  ctorThrows,      \* new WebSocket(url) throws for this handle's relayUrl
  socks,           \* the WebSocket objects the handle has created
  ws,              \* let ws: index into socks, 0 for null
  shouldReconnect, \* let shouldReconnect
  backoff,         \* let backoff, in 1/Scale ms
  timers,          \* pending setTimeout(connect, delay) calls
  listeners,       \* const listeners = new Set()
  notes,           \* the notifications delivered by the last step
  posts,           \* what became of every post(ev): sent, dropped, raised
  relayUp,         \* the relay can be reached from the client
  sched,           \* the delay of the last setTimeout, and whether a
                   \* connection has opened since
  transport,       \* the strategy mkBus chose: "ws", "local", or "none"
  chanName,        \* const chanName = `caveman-qte-${code}`
  rx,              \* the last 'message' event of the handle's connection:
                   \* e.data, the calls made to the callbacks, what escaped
  destroyed,       \* the destroy() calls made (counted up to two), and
                   \* whether an exception has left one
  \* --- the local fallback handles of the contexts (App.jsx 74-88)
  ch,              \* let ch: "none" (undefined), "open" or "closed"
  storageOn,       \* onStorage is registered as the window's storage listener
  chOnmessage,     \* ch.onmessage is set
  localListeners,  \* const listeners = new Set() of each context's handle
  inbox,           \* message and storage events queued for each context
  heard,           \* how often each callback was invoked with each event
  published,       \* the post(ev) calls made: by which context, raised or not
  \* --- the application QTEApp (App.jsx 144-241)
  role,            \* useState(null): "none" for null, "HOST", "PLAYER"
  name,            \* useState("")
  code,            \* useState("")
  relayUrl,        \* useState("")
  cfg,             \* useState(null): <<>> for null, else <<config>>
  handles,         \* every handle mkBus has returned to the application
  busRef,          \* busRef.current: index into handles, 0 for null
  subOn,           \* the handle each effect's callback is registered on
  \* --- the player's cue state (App.jsx 213-280)
  activeCue,        \* useState(null): <<>> for null, else <<cue>>
  activeSeq,        \* useState(null): <<>> for null, else <<sequence>>
  showSeqHighlight, \* useState(true)
  seqGapTimer,      \* the pending glow-gap timeout with what its closure holds
  began,            \* number of SEQ_BEGIN events received
  \* --- grading (App.jsx 108-119)
  graded           \* a reaction time, thresholds and leniency, and the grades
                   \* gradeReaction and gradeWithLeniency returned for them

relayVars == <<serverUp, rooms, readyState, reqUrl, peersKey, last, errored>>

busVars ==
  <<ctorThrows, socks, ws, shouldReconnect, backoff, timers, listeners, notes,
    posts, relayUp, sched>>

recvVars == <<transport, chanName, rx>>

\* What a step of the relay server leaves alone, and what a step of the
\* connection machinery of a relay handle leaves alone.
localVars ==
  <<ch, storageOn, chOnmessage, localListeners, inbox, heard, published>>

appVars == <<role, name, code, relayUrl, cfg, handles, busRef, subOn>>

playerVars == <<activeCue, activeSeq, showSeqHighlight, seqGapTimer, began>>

pageVars == <<appVars, playerVars, graded>>

exRelay == <<busVars, recvVars, destroyed, localVars, pageVars>>
exBus == <<relayVars, recvVars, destroyed, localVars, pageVars>>

\* What a step of the application, of the player's cue state and of grading
\* leaves alone.
transportVars == <<relayVars, busVars, recvVars, destroyed, localVars>>
exApp == <<transportVars, playerVars, graded>>
exPlayer == <<transportVars, appVars, graded>>
exGrade == <<transportVars, appVars, playerVars>>

vars ==
  <<serverUp, rooms, readyState, reqUrl, peersKey, last, errored,
    ctorThrows, socks, ws, shouldReconnect, backoff, timers, listeners, notes,
    posts, relayUp, sched, transport, chanName, rx, destroyed,
    ch, storageOn, chOnmessage, localListeners, inbox, heard, published,
    role, name, code, relayUrl, cfg, handles, busRef, subOn,
    activeCue, activeSeq, showSeqHighlight, seqGapTimer, began, graded>>

RoomIds == {"default", "A"}

\* new URL(req.url, 'http://x').searchParams.get('room'): <<>> stands for null.
SearchParamsGet(u) == IF u.hasRoom THEN <<u.room>> ELSE <<>>

\* searchParams.get('room') || 'default': null and "" are both falsy.
RoomOf(u) ==
  LET g == SearchParamsGet(u)
  IN  IF g = <<>> \/ g[1] = "" THEN "default" ELSE g[1]

\* if (!rooms.has(room)) rooms.set(room, new Set()); peers.add(ws)
RoomsAdd(m, room, w) ==
  [r \in DOMAIN m \cup {room} |->
     IF r = room THEN (IF r \in DOMAIN m THEN m[r] ELSE {}) \cup {w}
     ELSE m[r]]

\* peers.delete(ws), on the Set the handler captured
RoomsDelete(m, room, w) ==
  [r \in DOMAIN m |-> IF r = room THEN m[r] \ {w} ELSE m[r]]

\* A fan-out that does not skip the sender.
FanOutToAll(peers, w, rs) ==
  [p \in Sess |-> IF p \in peers /\ rs[p] = OPEN THEN 1 ELSE 0]

\* for (const peer of peers) if (peer !== ws && peer.readyState === 1) peer.send(msg)
\* The number of send calls made on every session.
FanOut(peers, w, rs) ==
  [p \in Sess |-> IF p \in peers /\ p # w /\ rs[p] = OPEN THEN 1 ELSE 0]

RelayInit ==
  /\ serverUp = TRUE
  /\ rooms = [r \in {} |-> {}]
  /\ readyState = [s \in Sess |-> CONNECTING]
  /\ reqUrl = [s \in Sess |-> NoUrl]
  /\ peersKey = [s \in Sess |-> "-"]
  /\ last = [seq |-> 0, from |-> 0, frame |-> NoFrame,
             sends |-> [p \in Sess |-> 0], gone |-> {}]
  /\ errored = [s \in Sess |-> FALSE]

\* wss.on('connection', (ws, req) => ...)
Connection(s, u) ==
  /\ serverUp
  /\ readyState[s] = CONNECTING
  /\ readyState' = [readyState EXCEPT ![s] = OPEN]
  /\ reqUrl' = [reqUrl EXCEPT ![s] = u]
  /\ peersKey' = [peersKey EXCEPT ![s] = RoomOf(u)]
  /\ rooms' = RoomsAdd(rooms, RoomOf(u), s)
  /\ UNCHANGED <<serverUp, last, errored>>
  /\ UNCHANGED exRelay

\* A message handler that parses the frame and drops what is not JSON.
OnMessageParsing(s, f) ==
  /\ serverUp
  /\ readyState[s] \in {OPEN, CLOSING}
  /\ last' = [seq |-> 1 - last.seq, from |-> s, frame |-> f,
              sends |-> IF f.json THEN FanOut(rooms[peersKey[s]], s, readyState)
                        ELSE [p \in Sess |-> 0],
              gone |-> {p \in Sess : readyState[p] = CLOSED}]
  /\ UNCHANGED <<serverUp, rooms, readyState, reqUrl, peersKey, errored>>
  /\ UNCHANGED exRelay

\* A message handler that registers the sender in the room its frame is tagged
\* with.
OnMessageRejoin(s, f) ==
  /\ serverUp
  /\ readyState[s] \in {OPEN, CLOSING}
  /\ last' = [seq |-> 1 - last.seq, from |-> s, frame |-> f,
              sends |-> FanOut(rooms[peersKey[s]], s, readyState),
              gone |-> {p \in Sess : readyState[p] = CLOSED}]
  /\ rooms' = IF f.json THEN RoomsAdd(rooms, f.room, s) ELSE rooms
  /\ UNCHANGED <<serverUp, readyState, reqUrl, peersKey, errored>>
  /\ UNCHANGED exRelay

\* ws.on('message', msg => ...): the frame is not parsed, only forwarded.
OnMessage(s, f) ==
  /\ serverUp
  /\ readyState[s] \in {OPEN, CLOSING}
  /\ last' = [seq |-> 1 - last.seq, from |-> s, frame |-> f,
              sends |-> FanOut(rooms[peersKey[s]], s, readyState),
              gone |-> {p \in Sess : readyState[p] = CLOSED}]
  /\ UNCHANGED <<serverUp, rooms, readyState, reqUrl, peersKey, errored>>
  /\ UNCHANGED exRelay

\* The connection of s starts to go down (close frame received, socket error):
\* ws sets readyState to CLOSING; the 'close' event comes later.
SocketClosing(s) ==
  /\ serverUp
  /\ readyState[s] = OPEN
  /\ readyState' = [readyState EXCEPT ![s] = CLOSING]
  /\ UNCHANGED <<serverUp, rooms, reqUrl, peersKey, last, errored>>
  /\ UNCHANGED exRelay

\* A 'close' handler that forgets to delete the session.
OnCloseKeeps(s) ==
  /\ serverUp
  /\ readyState[s] \in {OPEN, CLOSING}
  /\ readyState' = [readyState EXCEPT ![s] = CLOSED]
  /\ UNCHANGED <<serverUp, rooms, reqUrl, peersKey, last, errored>>
  /\ UNCHANGED exRelay

\* ws.on('close', () => peers.delete(ws)); ws is CLOSED when 'close' is emitted.
OnClose(s) ==
  /\ serverUp
  /\ readyState[s] \in {OPEN, CLOSING}
  /\ readyState' = [readyState EXCEPT ![s] = CLOSED]
  /\ rooms' = RoomsDelete(rooms, peersKey[s], s)
  /\ UNCHANGED <<serverUp, reqUrl, peersKey, last, errored>>
  /\ UNCHANGED exRelay

\* ws emits 'error' (a protocol error in a received frame). The connection
\* handler registers 'message' and 'close' listeners only; an 'error' event
\* without a listener is thrown by the emitter and ends the process.
OnWsError(s) ==
  /\ serverUp
  /\ readyState[s] \in {OPEN, CLOSING}
  /\ serverUp' = FALSE
  /\ errored' = [errored EXCEPT ![s] = TRUE]
  /\ UNCHANGED <<rooms, readyState, reqUrl, peersKey, last>>
  /\ UNCHANGED exRelay

\* --------------------------------- transport client, relay strategy (mkBus)

\* let backoff = 500
InitialBackoff == 500

\* Math.min(backoff, 5000)
MaxDelay == 5000

\* backoff is held in units of 1/Scale ms, so that every `backoff *= 1.5` a
\* handle can make (one per closed socket) is exact, as it is in the doubles of
\* the code (500 * 1.5^n is a dyadic rational).
Scale == 2 ^ (MaxSocks + 2)

\* One tick of the clock that drives setTimeout, in ms.
TickMs == InitialBackoff

\* What post(ev) is given: a value JSON.stringify can serialize, or one it
\* throws on (a cycle, a BigInt).
Events == {[ok |-> TRUE], [ok |-> FALSE]}

Min(a, b) == IF a <= b THEN a ELSE b

\* A backoff that doubles.
NextBackoffDoubling(b) == b * 2

\* backoff *= 1.5
NextBackoff(b) == (b * 3) \div 2

\* Math.min(backoff, 5000)
DelayOf(b) == Min(b, MaxDelay * Scale)

\* A socket that is closed, whatever it was before.
ClosedSock == [rs |-> CLOSED, opened |-> FALSE]

\* WebSocket.close(): CONNECTING and OPEN go to CLOSING; no effect otherwise,
\* and on null a TypeError that the caller's try/catch swallows.
CloseCall(S, k) ==
  IF k # 0 /\ S[k].rs \in {CONNECTING, OPEN}
  THEN [S EXCEPT ![k].rs = CLOSING]
  ELSE S

\* emitStatus(state): listeners.forEach(l => l({type: "__STATUS__", state, ...}))
EmitStatus(state) == [type |-> "__STATUS__", state |-> state, to |-> listeners]

\* What a caller of post finds: <<>> for no connection object, else <<the
\* readyState of ws>>.
ConnState == IF ws = 0 THEN <<>> ELSE <<socks[ws].rs>>

\* setTimeout due: the delay has elapsed.
Due(t) == t.elapsed * TickMs * Scale >= t.delay

Remove(q, i) == [j \in 1..(Len(q) - 1) |-> IF j < i THEN q[j] ELSE q[j + 1]]

\* The state mkBus returns in: listeners empty, connect() called once.
BusInit ==
  /\ ctorThrows \in BOOLEAN
  /\ socks = IF ctorThrows THEN <<>> ELSE <<[rs |-> CONNECTING, opened |-> FALSE]>>
  /\ ws = IF ctorThrows THEN 0 ELSE 1
  /\ shouldReconnect = TRUE
  /\ backoff = InitialBackoff * Scale
  /\ timers = <<>>
  /\ listeners = {}
  /\ notes = <<>>
  /\ posts = <<>>
  /\ relayUp \in BOOLEAN
  /\ sched = [n |-> 0, delay |-> 0, opened |-> FALSE]

\* A timer that stays scheduled after it has run (setInterval).
TimerFireRepeating(i) ==
  /\ i \in DOMAIN timers
  /\ Due(timers[i])
  /\ Len(socks) < MaxSocks
  /\ timers' = [timers EXCEPT ![i].elapsed = 0]
  /\ socks' = Append(socks, [rs |-> CONNECTING, opened |-> FALSE])
  /\ ws' = Len(socks) + 1
  /\ notes' = <<>>
  /\ UNCHANGED <<ctorThrows, shouldReconnect, backoff, listeners, posts,
                 relayUp, sched>>
  /\ UNCHANGED exBus

\* const connect = () => { try { ws = new WebSocket(...) } catch { ws = null }
\*                         if (!ws) return; ws.onopen = ... }
\* run by a timer that is due.
TimerFire(i) ==
  /\ i \in DOMAIN timers
  /\ Due(timers[i])
  /\ timers' = Remove(timers, i)
  /\ IF ctorThrows
     THEN /\ ws' = 0
          /\ socks' = socks
     ELSE /\ socks' = Append(socks, [rs |-> CONNECTING, opened |-> FALSE])
          /\ ws' = Len(socks) + 1
  /\ notes' = <<>>
  /\ UNCHANGED <<ctorThrows, shouldReconnect, backoff, listeners, posts,
                 relayUp, sched>>
  /\ UNCHANGED exBus

\* Time passes: every pending timer that is not yet due gets one tick older.
Tick ==
  /\ \E i \in DOMAIN timers : ~Due(timers[i])
  /\ timers' = [i \in DOMAIN timers |->
                  IF Due(timers[i]) THEN timers[i]
                  ELSE [timers[i] EXCEPT !.elapsed = @ + 1]]
  /\ notes' = <<>>
  /\ UNCHANGED <<ctorThrows, socks, ws, shouldReconnect, backoff, listeners,
                 posts, relayUp, sched>>
  /\ UNCHANGED exBus

\* ws.onopen = () => { backoff = 500; emitStatus("open"); }
OnOpen(k) ==
  /\ k \in DOMAIN socks
  /\ socks[k].rs = CONNECTING
  /\ relayUp
  /\ socks' = [socks EXCEPT ![k] = [rs |-> OPEN, opened |-> TRUE]]
  /\ backoff' = InitialBackoff * Scale
  /\ notes' = <<EmitStatus("open")>>
  /\ sched' = [sched EXCEPT !.opened = TRUE]
  /\ UNCHANGED <<ctorThrows, ws, shouldReconnect, timers, listeners, posts,
                 relayUp>>
  /\ UNCHANGED exBus

\* ws.onclose = () => { if (!shouldReconnect) return; emitStatus("closed");
\*                      setTimeout(connect, Math.min(backoff, 5000));
\*                      backoff *= 1.5; }
\* S is the sockets and before the notifications already delivered in this task.
OnCloseNoRetry(S, before) ==
  /\ socks' = S
  /\ IF shouldReconnect
     THEN notes' = Append(before, EmitStatus("closed"))
     ELSE notes' = before
  /\ UNCHANGED <<timers, backoff, sched>>

OnCloseHandler(S, before) ==
  /\ socks' = S
  /\ IF shouldReconnect
     THEN /\ notes' = Append(before, EmitStatus("closed"))
          /\ timers' = Append(timers, [delay |-> DelayOf(backoff), elapsed |-> 0])
          /\ sched' = [n |-> 1 - sched.n, delay |-> DelayOf(backoff),
                       opened |-> FALSE]
          /\ backoff' = NextBackoff(backoff)
     ELSE /\ notes' = before
          /\ UNCHANGED <<timers, backoff, sched>>

\* The network may still fail the connections of this handle.
MayFail == Len(socks) < MaxSocks

\* The connection of socket k fails: the browser sets it CLOSED and, in one
\* task, fires 'error' and then 'close'.
\*   ws.onerror = () => { emitStatus("error"); try { ws.close(); } catch {} }
\* A connection attempt fails while the relay cannot be reached; an open
\* connection can be lost at any time; a socket closed by close() before it
\* opened always ends this way.
SockFail(k) ==
  /\ k \in DOMAIN socks
  /\ \/ socks[k].rs = CONNECTING /\ ~relayUp /\ MayFail
     \/ socks[k].rs = OPEN /\ MayFail
     \/ socks[k].rs = CLOSING
  /\ OnCloseHandler(CloseCall([socks EXCEPT ![k] = ClosedSock], ws),
                    <<EmitStatus("error")>>)
  /\ UNCHANGED <<ctorThrows, ws, shouldReconnect, listeners, posts, relayUp>>
  /\ UNCHANGED exBus

\* The connection of socket k, which had opened, is closed without an error
\* (by the relay, or in answer to close()): only 'close' is fired.
SockClosed(k) ==
  /\ k \in DOMAIN socks
  /\ socks[k].opened
  /\ \/ socks[k].rs = OPEN /\ MayFail
     \/ socks[k].rs = CLOSING
  /\ OnCloseHandler([socks EXCEPT ![k] = ClosedSock], <<>>)
  /\ UNCHANGED <<ctorThrows, ws, shouldReconnect, listeners, posts, relayUp>>
  /\ UNCHANGED exBus

\* post(ev) { try { if (ws && ws.readyState === 1)
\*                    ws.send(JSON.stringify({room, payload: ev})); } catch {} }
\* Each call is logged: the connection it found, whether ws.send was reached,
\* whether an exception left post. The first definition is post without its
\* guard and its try/catch: ws.send throws on null and while CONNECTING.
PostNaive(ev) ==
  /\ transport = "ws"
  /\ Len(posts) < MaxPost
  /\ LET threw == (ws = 0) \/ (~ev.ok) \/ socks[ws].rs = CONNECTING
     IN  posts' = Append(posts, [conn |-> ConnState,
                                 sent |-> (~threw) /\ socks[ws].rs = OPEN,
                                 raised |-> threw])
  /\ notes' = <<>>
  /\ UNCHANGED <<ctorThrows, socks, ws, shouldReconnect, backoff, timers,
                 listeners, relayUp, sched>>
  /\ UNCHANGED exBus

Post(ev) ==
  /\ transport = "ws"
  /\ Len(posts) < MaxPost
  /\ LET guard == ws # 0 /\ socks[ws].rs = OPEN
         threw == guard /\ ~ev.ok
     IN  posts' = Append(posts, [conn |-> ConnState,
                                 sent |-> guard /\ ~threw,
                                 raised |-> FALSE])
  /\ notes' = <<>>
  /\ UNCHANGED <<ctorThrows, socks, ws, shouldReconnect, backoff, timers,
                 listeners, relayUp, sched>>
  /\ UNCHANGED exBus

\* on(cb) { listeners.add(cb); return () => listeners.delete(cb); }
On(cb) ==
  /\ transport = "ws"
  /\ cb \notin listeners
  /\ listeners' = listeners \cup {cb}
  /\ notes' = <<>>
  /\ UNCHANGED <<ctorThrows, socks, ws, shouldReconnect, backoff, timers, posts,
                 relayUp, sched>>
  /\ UNCHANGED exBus

\* the function on(cb) returned
Off(cb) ==
  /\ transport = "ws"
  /\ cb \in listeners
  /\ listeners' = listeners \ {cb}
  /\ notes' = <<>>
  /\ UNCHANGED <<ctorThrows, socks, ws, shouldReconnect, backoff, timers, posts,
                 relayUp, sched>>
  /\ UNCHANGED exBus

\* destroy() { shouldReconnect = false; try { ws?.close(); } catch {} }
\* The first definition is destroy without `?.` and without its try/catch:
\* ws.close() on null is a TypeError that leaves destroy.
DestroyNaive ==
  /\ transport = "ws"
  /\ shouldReconnect' = FALSE
  /\ socks' = CloseCall(socks, ws)
  /\ destroyed' = [calls |-> Min(destroyed.calls + 1, 2),
                   raised |-> destroyed.raised \/ ws = 0]
  /\ notes' = <<>>
  /\ UNCHANGED <<ctorThrows, ws, backoff, timers, listeners, posts, relayUp,
                 sched>>
  /\ UNCHANGED <<relayVars, recvVars, localVars, pageVars>>

Destroy ==
  /\ transport = "ws"
  /\ shouldReconnect' = FALSE
  /\ socks' = CloseCall(socks, ws)
  /\ notes' = <<>>
  /\ destroyed' = [destroyed EXCEPT !.calls = Min(@ + 1, 2)]
  /\ UNCHANGED <<ctorThrows, ws, backoff, timers, listeners, posts, relayUp,
                 sched>>
  /\ UNCHANGED <<relayVars, recvVars, localVars, pageVars>>

\* The relay becomes unreachable, or reachable again.
RelayFlip ==
  /\ transport = "ws"
  /\ relayUp' = ~relayUp
  /\ notes' = <<>>
  /\ UNCHANGED <<ctorThrows, socks, ws, shouldReconnect, backoff, timers,
                 listeners, posts, sched>>
  /\ UNCHANGED exBus

BusNext ==
  \/ \E i \in 1..MaxSocks : TimerFire(i)
  \/ Tick
  \/ \E k \in 1..MaxSocks : OnOpen(k)
  \/ \E k \in 1..MaxSocks : SockFail(k)
  \/ \E k \in 1..MaxSocks : SockClosed(k)
  \/ \E ev \in Events : Post(ev)
  \/ \E cb \in Cbs : On(cb)
  \/ \E cb \in Cbs : Off(cb)
  \/ Destroy
  \/ RelayFlip

\* ------------------------------ transport client, receive path (mkBus)

\* Lobby codes, and const chanName = `caveman-qte-${code}`.
Codes == {"K7QRT", "ZZ9PL"}

ChanNameOf(c) == "caveman-qte-" \o c

\* JavaScript values: a primitive is [t, v]; an object is a record with
\* t = "object" and one field for each property it has.
Undefined == [t |-> "undefined", v |-> "undefined"]
Null == [t |-> "null", v |-> "null"]
Str(x) == [t |-> "string", v |-> x]

\* The values JSON carries as a payload: an event object, numbers, the empty
\* string, false, null.
Payloads ==
  { [t |-> "object", type |-> "QTE_SINGLE"],
    [t |-> "number", v |-> "0"], [t |-> "number", v |-> "7"],
    Str(""), [t |-> "boolean", v |-> "false"], Null }

\* The room tags a frame may carry: the room of a lobby code, or "".
RoomTags == {Str(ChanNameOf(c)) : c \in Codes} \cup {Str("")}

\* What JSON.parse(e.data) may give: an envelope {room, payload}, one without
\* a room tag, one without a payload, a bare event or primitive.
Parsed ==
  {[t |-> "object", room |-> r, payload |-> p] : r \in RoomTags, p \in Payloads}
    \cup {[t |-> "object", payload |-> p] : p \in Payloads}
    \cup {[t |-> "object", room |-> r] : r \in RoomTags}
    \cup Payloads

\* e.data: text that JSON.parse accepts, with the value parsed from it, or text
\* it throws on.
WireData ==
  {[json |-> TRUE, val |-> m] : m \in Parsed}
    \cup {[json |-> FALSE, val |-> Undefined]}

\* ToBoolean
Truthy(x) ==
  \/ x.t = "object"
  \/ x.t = "number" /\ x.v # "0"
  \/ x.t = "string" /\ x.v # ""
  \/ x.t = "boolean" /\ x.v = "true"

\* x[prop] for x that is neither null nor undefined.
Get(x, prop) ==
  IF x.t = "object" /\ prop \in DOMAIN x THEN x[prop] ELSE Undefined

\* const ev = msg && (msg.payload || msg)
EvOf(msg) ==
  IF ~Truthy(msg) THEN msg
  ELSE IF Truthy(Get(msg, "payload")) THEN Get(msg, "payload") ELSE msg

\* if (!msg.room || msg.room === chanName): reading msg.room of null is a
\* TypeError, which the handler's catch swallows like a parse failure.
Passes(msg, chan) ==
  /\ msg.t \notin {"null", "undefined"}
  /\ \/ ~Truthy(Get(msg, "room"))
     \/ Get(msg, "room") = Str(chan)

NoRx ==
  [got |-> FALSE, data |-> [json |-> FALSE, val |-> Undefined], subs |-> {},
   calls |-> <<>>, raised |-> FALSE]

\* ws.onmessage = (e) => { try { const msg = JSON.parse(e.data);
\*     const ev = msg && (msg.payload || msg);
\*     if (!msg.room || msg.room === chanName) listeners.forEach((l) => l(ev));
\*   } catch {} };
\* on a connection k that is up, with e.data = d.
WsOnMessage(k, d) ==
  /\ transport = "ws"
  /\ k \in DOMAIN socks
  /\ socks[k].rs \in {OPEN, CLOSING}
  /\ socks[k].opened
  /\ rx' = [got |-> TRUE, data |-> d, subs |-> listeners,
            calls |-> [cb \in listeners |->
                         IF d.json /\ Passes(d.val, chanName)
                         THEN <<EvOf(d.val)>> ELSE <<>>],
            raised |-> FALSE]
  /\ notes' = <<>>
  /\ UNCHANGED <<ctorThrows, socks, ws, shouldReconnect, backoff, timers,
                 listeners, posts, relayUp, sched, transport, chanName>>
  /\ UNCHANGED <<relayVars, destroyed, localVars, pageVars>>

\* ------------------------- transport client, local fallback (mkBus 74-88)

\* No event has been heard by any callback of any context.
NoneHeard == [c \in Ctx |-> [cb \in Cbs |-> [e \in 1..MaxPost |-> 0]]]

\* The contexts hold no fallback handle.
NoLocal ==
  /\ ch = [c \in Ctx |-> "none"]
  /\ storageOn = [c \in Ctx |-> FALSE]
  /\ chOnmessage = [c \in Ctx |-> FALSE]
  /\ localListeners = [c \in Ctx |-> {}]
  /\ inbox = [c \in Ctx |-> <<>>]
  /\ heard = NoneHeard
  /\ published = <<>>

\* let ch; try { ch = new BroadcastChannel(chanName); } catch {}
\* window.addEventListener("storage", onStorage);
\* in every context, of a browser that has BroadcastChannel or has not.
LocalInit ==
  /\ transport \in {"broadcastchannel", "storage"}
  /\ ch = [c \in Ctx |-> IF transport = "broadcastchannel" THEN "open" ELSE "none"]
  /\ storageOn = [c \in Ctx |-> TRUE]
  /\ chOnmessage = [c \in Ctx |-> FALSE]
  /\ localListeners = [c \in Ctx |-> {}]
  /\ inbox = [c \in Ctx |-> <<>>]
  /\ heard = NoneHeard
  /\ published = <<>>

\* on(cb) { listeners.add(cb);
\*          if (ch) ch.onmessage = (e) => { listeners.forEach((l) => l(e.data)); };
\*          return () => listeners.delete(cb); }
LocalOn(c, cb) ==
  /\ transport \in {"broadcastchannel", "storage"}
  /\ cb \notin localListeners[c]
  /\ localListeners' = [localListeners EXCEPT ![c] = @ \cup {cb}]
  /\ chOnmessage' = [chOnmessage EXCEPT ![c] = @ \/ ch[c] # "none"]
  /\ UNCHANGED <<transport, chanName, rx, destroyed, ch, storageOn, inbox, heard,
                 published>>
  /\ UNCHANGED <<relayVars, busVars, pageVars>>

\* the function on(cb) returned
LocalOff(c, cb) ==
  /\ transport \in {"broadcastchannel", "storage"}
  /\ cb \in localListeners[c]
  /\ localListeners' = [localListeners EXCEPT ![c] = @ \ {cb}]
  /\ UNCHANGED <<transport, chanName, rx, destroyed, ch, storageOn, chOnmessage,
                 inbox, heard, published>>
  /\ UNCHANGED <<relayVars, busVars, pageVars>>

\* The events a post of context c queues in context d: the message event of
\* ch.postMessage(ev) for a channel of the same name that is open in another
\* context; the storage events of setItem (newValue the JSON text) and of
\* removeItem (newValue null) for every other document. JSON.stringify(ev)
\* throws before setItem for an event it cannot serialize.
Queued(c, d, e, ev) ==
  IF d = c THEN <<>>
  ELSE (IF ch[c] = "open" /\ ch[d] = "open"
        THEN <<[via |-> "message", ev |-> e, newValue |-> TRUE]>> ELSE <<>>)
       \o (IF ev.ok
           THEN <<[via |-> "storage", ev |-> e, newValue |-> TRUE],
                  [via |-> "storage", ev |-> e, newValue |-> FALSE]>>
           ELSE <<>>)

\* post(ev) { ch?.postMessage(ev);
\*            try { localStorage.setItem(storageKey, JSON.stringify(ev));
\*                  localStorage.removeItem(storageKey); } catch {} }
\* postMessage on a closed channel throws, outside the try.
LocalPost(c, ev) ==
  /\ transport \in {"broadcastchannel", "storage"}
  /\ Len(published) < MaxPost
  /\ IF ch[c] = "closed"
     THEN /\ published' = Append(published, [by |-> c, raised |-> TRUE])
          /\ inbox' = inbox
     ELSE /\ published' = Append(published, [by |-> c, raised |-> FALSE])
          /\ inbox' = [d \in Ctx |->
                         inbox[d] \o Queued(c, d, Len(published) + 1, ev)]
  /\ UNCHANGED <<transport, chanName, rx, destroyed, ch, storageOn, chOnmessage,
                 localListeners, heard>>
  /\ UNCHANGED <<relayVars, busVars, pageVars>>

\* The event loop of context c dispatches one queued event.
\*   ch.onmessage = (e) => { listeners.forEach((l) => l(e.data)); }
\*   onStorage = (e) => { if (e.key === storageKey && e.newValue) { try {
\*       const ev = JSON.parse(e.newValue); listeners.forEach((l) => l(ev));
\*     } catch {} } }
\* Message and storage events come from different task sources: any queued
\* event may be next.
LocalDispatch(c, i) ==
  /\ transport \in {"broadcastchannel", "storage"}
  /\ i \in DOMAIN inbox[c]
  /\ LET e == inbox[c][i]
         handled ==
           IF e.via = "message" THEN ch[c] = "open" /\ chOnmessage[c]
           ELSE storageOn[c] /\ e.newValue
     IN  /\ inbox' = [inbox EXCEPT ![c] = Remove(@, i)]
         /\ heard' =
              IF handled
              THEN [heard EXCEPT ![c] =
                      [cb \in Cbs |->
                         IF cb \in localListeners[c]
                         THEN [heard[c][cb] EXCEPT ![e.ev] = @ + 1]
                         ELSE heard[c][cb]]]
              ELSE heard
  /\ UNCHANGED <<transport, chanName, rx, destroyed, ch, storageOn, chOnmessage,
                 localListeners, published>>
  /\ UNCHANGED <<relayVars, busVars, pageVars>>

\* destroy() { if (typeof window !== "undefined")
\*               window.removeEventListener("storage", onStorage);
\*             try { ch?.close(); } catch {} }
LocalDestroy(c) ==
  /\ transport \in {"broadcastchannel", "storage"}
  /\ storageOn' = [storageOn EXCEPT ![c] = FALSE]
  /\ ch' = [ch EXCEPT ![c] = IF @ = "none" THEN "none" ELSE "closed"]
  /\ destroyed' = [destroyed EXCEPT !.calls = Min(@ + 1, 2)]
  /\ UNCHANGED <<transport, chanName, rx, chOnmessage, localListeners,
                 inbox, heard, published>>
  /\ UNCHANGED <<relayVars, busVars, pageVars>>

LocalNext ==
  \/ \E c \in Ctx, cb \in Cbs : LocalOn(c, cb)
  \/ \E c \in Ctx, cb \in Cbs : LocalOff(c, cb)
  \/ \E c \in Ctx, ev \in Events : LocalPost(c, ev)
  \/ \E c \in Ctx, i \in 1..(3 * MaxPost) : LocalDispatch(c, i)
  \/ \E c \in Ctx : LocalDestroy(c)

\* ------------------------------------------- application (QTEApp 144-241)

\* What the inputs of the start view can hold.
Names == {"", "Ann"}
RelayUrls == {"", "wss://relay"}
AppCodes == Codes \cup {""}

\* cfg?.code: "" stands for undefined.
CfgCode(g) == IF g = <<>> THEN "" ELSE g[1].code

\* A config object for lobby c that is not the object cfg holds: setCfg always
\* gets a new object (defaultConfig(c), {...c, …}, ev.config).
NewCfg(c) == [code |-> c, rev |-> IF cfg = <<>> THEN 0 ELSE 1 - cfg[1].rev]

\* const bus = mkBus(code, relayUrl)
MkBus(c, u) == [code |-> c, relayUrl |-> u, destroyed |-> FALSE]

\* busRef.current?.destroy?.()
DestroyHandle(H, i) == IF i = 0 THEN H ELSE [H EXCEPT ![i].destroyed = TRUE]

\* The render with the new state r, n, c, u, g and its effects. React runs the
\* cleanup of every effect whose dependencies changed, then the effects in
\* the order they are declared:
\*   useEffect(() => { if (!code) return; busRef.current?.destroy?.();
\*       const bus = mkBus(code, relayUrl); busRef.current = bus;
\*       const unsub = bus.on(…); …; return () => { unsub?.(); };
\*     }, [code, role, name, cfg?.code]);
\*   useEffect(() => { const bus = busRef.current; if (!bus) return;
\*       const off = bus.on(…); return () => off?.();
\*     }, [code, relayUrl, clientId]);
\*   useEffect(() => { const bus = busRef.current; if (!bus) return;
\*       const off = bus.on(…); return () => off?.();
\*     }, [role, cfg, clientId]);
Commit(r, n, c, u, g) ==
  LET d1 == c # code \/ r # role \/ n # name \/ CfgCode(g) # CfgCode(cfg)
      d2 == c # code \/ u # relayUrl
      d3 == r # role \/ g # cfg
      make == d1 /\ c # ""
      ref == IF make THEN Len(handles) + 1 ELSE busRef
  IN  /\ make => Len(handles) < MaxHandles
      /\ role' = r /\ name' = n /\ code' = c /\ relayUrl' = u /\ cfg' = g
      /\ handles' = IF make
                    THEN Append(DestroyHandle(handles, busRef), MkBus(c, u))
                    ELSE handles
      /\ busRef' = ref
      /\ subOn' = [events |-> IF d1 THEN (IF make THEN ref ELSE 0)
                              ELSE subOn.events,
                   status |-> IF d2 THEN ref ELSE subOn.status,
                   cue |-> IF d3 THEN ref ELSE subOn.cue]
      /\ UNCHANGED exApp

\* The state after the first render: code is "", so no effect makes a handle.
AppInit ==
  /\ role = "none" /\ name = "" /\ code = "" /\ relayUrl = "" /\ cfg = <<>>
  /\ handles = <<>> /\ busRef = 0
  /\ subOn = [events |-> 0, status |-> 0, cue |-> 0]

\* <Input value={name} onChange={(e) => setName(e.target.value)} />
SetName(n) ==
  /\ role = "none" /\ n # name
  /\ Commit(role, n, code, relayUrl, cfg)

\* <Input value={code} onChange={(e) => setCode(e.target.value.toUpperCase())} />
SetCode(c) ==
  /\ role = "none" /\ c # code
  /\ Commit(role, name, c, relayUrl, cfg)

\* <Input value={relayUrl} onChange={(e) => setRelayUrl(e.target.value)} />
SetRelayUrl(u) ==
  /\ role = "none" /\ u # relayUrl
  /\ Commit(role, name, code, u, cfg)

\* const createLobby = () => { const c = randomCode(5);
\*   const next = defaultConfig(c); setCfg(next); setCode(c); setRole("HOST"); }
CreateLobby(c) ==
  /\ role = "none"
  /\ Commit("HOST", name, c, relayUrl, <<NewCfg(c)>>)

\* const joinLobby = () => { if (!code || !name.trim()) return;
\*                           setRole("PLAYER"); }
JoinLobby ==
  /\ role = "none" /\ code # "" /\ name # ""
  /\ Commit("PLAYER", name, code, relayUrl, cfg)

\* <Button variant="outline" onClick={() => setRole(null)}>Exit</Button>
\* of the host view (role === "HOST" && cfg) and of the player view.
Exit ==
  /\ (role = "HOST" /\ cfg # <<>>) \/ role = "PLAYER"
  /\ Commit("none", name, code, relayUrl, cfg)

\* updateCount, updateName, updateThreshold: setCfg((c) => c ? {...c, …} : c)
UpdateCfg ==
  /\ role = "HOST" /\ cfg # <<>>
  /\ Commit(role, name, code, relayUrl, <<NewCfg(cfg[1].code)>>)

\* if (ev.type === "CONFIG" && role === "PLAYER") setCfg(ev.config);
\* run by the event callback, for the CONFIG the host of the handle's lobby
\* posts, while the handle the callback is registered on is not destroyed.
ConfigReceived ==
  /\ role = "PLAYER"
  /\ subOn.events # 0
  /\ ~handles[subOn.events].destroyed
  /\ Commit(role, name, code, relayUrl, <<NewCfg(handles[subOn.events].code)>>)

AppNext ==
  \/ \E n \in Names : SetName(n)
  \/ \E c \in AppCodes : SetCode(c)
  \/ \E u \in RelayUrls : SetRelayUrl(u)
  \/ \E c \in Codes : CreateLobby(c)
  \/ JoinLobby
  \/ Exit
  \/ UpdateCfg
  \/ ConfigReceived

\* ------------------------------------- player cue state (QTEApp 213-280)

\* The buttons of the lobby (indices), and the sequences a host may send.
Buttons == {0, 1}
Seqs == {<<0>>, <<0, 1>>, <<1, 1>>}

\* The player view with a config: no cue, no sequence, highlight shown.
PlayerInit ==
  /\ activeCue = <<>> /\ activeSeq = <<>> /\ showSeqHighlight = TRUE
  /\ seqGapTimer = <<>> /\ began = 0

\* if (ev.type === "QTE_SINGLE") { setActiveSeq(null);
\*                                 setActiveCue({ index: ev.index, start: ev.ts }); }
QteSingle(i) ==
  /\ activeSeq' = <<>>
  /\ activeCue' = <<[index |-> i]>>
  /\ UNCHANGED <<showSeqHighlight, seqGapTimer, began>>
  /\ UNCHANGED exPlayer

\* else if (ev.type === "SEQ_BEGIN" && ev.to === clientId) { setActiveCue(null);
\*     setActiveSeq({ seq: ev.seq.slice(), at: 0, start: Date.now() }); }
\* Every SEQ_BEGIN makes a new sequence object: id tells them apart.
SeqBegin(q) ==
  /\ began < MaxSeqs
  /\ began' = began + 1
  /\ activeCue' = <<>>
  /\ activeSeq' = <<[id |-> began + 1, seq |-> q, at |-> 0]>>
  /\ UNCHANGED <<showSeqHighlight, seqGapTimer>>
  /\ UNCHANGED exPlayer

\* onPress of the player view without an active sequence:
\*   const onPlayerClick = (index) => { …
\*     if (activeCue && activeCue.index === index) { …; setActiveCue(null); } }
OnPlayerClick(i) ==
  /\ activeSeq = <<>>
  /\ activeCue # <<>> /\ activeCue[1].index = i
  /\ activeCue' = <<>>
  /\ UNCHANGED <<activeSeq, showSeqHighlight, seqGapTimer, began>>
  /\ UNCHANGED exPlayer

\* onPress with an active sequence:
\*   const onPlayerSeqClick = (index) => { if (!cfg || !activeSeq) return;
\*     const expected = activeSeq.seq[activeSeq.at];
\*     if (!showSeqHighlight) return; if (index !== expected) return; …
\*     const nextAt = activeSeq.at + 1; setShowSeqHighlight(false);
\*     if (seqGapTimer.current) window.clearTimeout(seqGapTimer.current);
\*     seqGapTimer.current = window.setTimeout(() => {…}, …); }
\* The timer's closure holds the activeSeq of this render and nextAt.
OnPlayerSeqClick(i) ==
  /\ activeSeq # <<>>
  /\ showSeqHighlight
  /\ activeSeq[1].at < Len(activeSeq[1].seq)
  /\ i = activeSeq[1].seq[activeSeq[1].at + 1]
  /\ showSeqHighlight' = FALSE
  /\ seqGapTimer' = <<[activeSeq |-> activeSeq[1], nextAt |-> activeSeq[1].at + 1]>>
  /\ UNCHANGED <<activeCue, activeSeq, began>>
  /\ UNCHANGED exPlayer

\* The glow-gap timeout fires:
\*   () => { setShowSeqHighlight(true); if (!activeSeq) return;
\*     if (nextAt >= activeSeq.seq.length) { …; setActiveSeq(null); … }
\*     else { setActiveSeq({ ...activeSeq, at: nextAt }); … } }
\* where activeSeq and nextAt are the closure's.
GapTimer ==
  /\ seqGapTimer # <<>>
  /\ LET t == seqGapTimer[1]
     IN  activeSeq' = IF t.nextAt >= Len(t.activeSeq.seq) THEN <<>>
                      ELSE <<[t.activeSeq EXCEPT !.at = t.nextAt]>>
  /\ showSeqHighlight' = TRUE
  /\ seqGapTimer' = <<>>
  /\ UNCHANGED <<activeCue, began>>
  /\ UNCHANGED exPlayer

PlayerNext ==
  \/ \E i \in Buttons : QteSingle(i)
  \/ \E q \in Seqs : SeqBegin(q)
  \/ \E i \in Buttons : OnPlayerClick(i)
  \/ \E i \in Buttons : OnPlayerSeqClick(i)
  \/ GapTimer

\* ------------------------------------------------- grading (App.jsx 108-119)

\* The thresholds a lobby config may hold: updateThreshold keeps each one
\* >= 0 and does not order them.
Thresholds ==
  [perfect : 0..MaxThreshold, success : 0..MaxThreshold,
   close : 0..MaxThreshold, slow : 0..MaxThreshold, timeout : {MaxThreshold}]

\* A grading with `<` for `<=`.
gradeReactionStrict(ms, t) ==
  IF ms < t.perfect THEN "Perfect"
  ELSE IF ms < t.success THEN "Success"
  ELSE IF ms < t.close THEN "Close call"
  ELSE IF ms < t.slow THEN "Slow"
  ELSE "Failure"

\* function gradeReaction(ms, t)
gradeReaction(ms, t) ==
  IF ms <= t.perfect THEN "Perfect"
  ELSE IF ms <= t.success THEN "Success"
  ELSE IF ms <= t.close THEN "Close call"
  ELSE IF ms <= t.slow THEN "Slow"
  ELSE "Failure"

\* function gradeWithLeniency(ms, t, leniency)
gradeWithLeniency(ms, t, leniency) ==
  LET tt == [t EXCEPT !.perfect = t.perfect + leniency,
                      !.success = t.success + leniency,
                      !.close = t.close + leniency,
                      !.slow = t.slow + leniency]
  IN  gradeReaction(ms, tt)

\* Nothing has been graded: "" stands for a grade not yet computed.
GradeInit ==
  graded \in [ms : 0..MaxMs, t : Thresholds, leniency : 0..MaxLeniency,
              grade : {""}, lenient : {""}]

\* const grade = gradeReaction(rt, t)
GradeReaction ==
  /\ graded.grade = ""
  /\ graded' = [graded EXCEPT !.grade = gradeReaction(graded.ms, graded.t)]
  /\ UNCHANGED exGrade

\* const grade = gradeWithLeniency(rt, t, cfg.leniencyMs || 0)
GradeWithLeniency ==
  /\ graded.lenient = ""
  /\ graded' = [graded EXCEPT
                  !.lenient = gradeWithLeniency(graded.ms, graded.t,
                                                graded.leniency)]
  /\ UNCHANGED exGrade

GradeNext == GradeReaction \/ GradeWithLeniency

\* ---------------------------------------------------------- specifications

RelayNext ==
  \/ \E s \in Sess, u \in Urls : Connection(s, u)
  \/ \E s \in Sess, f \in Frames : OnMessage(s, f)
  \/ \E s \in Sess : SocketClosing(s)
  \/ \E s \in Sess : OnClose(s)
  \/ \E s \in Sess : OnWsError(s)

\* No application is mounted, no player state, nothing graded.
NoApp ==
  /\ role = "none" /\ name = "" /\ code = "" /\ relayUrl = "" /\ cfg = <<>>
  /\ handles = <<>> /\ busRef = 0
  /\ subOn = [events |-> 0, status |-> 0, cue |-> 0]

NoPlayer ==
  /\ activeCue = <<>> /\ activeSeq = <<>> /\ showSeqHighlight = TRUE
  /\ seqGapTimer = <<>> /\ began = 0

NoGrade ==
  graded = [ms |-> 0, t |-> [perfect |-> 0, success |-> 0, close |-> 0,
                             slow |-> 0, timeout |-> 0],
            leniency |-> 0, grade |-> "", lenient |-> ""]

NoPage == NoApp /\ NoPlayer /\ NoGrade

\* The relay server alone: no transport handle of this process exists.
NoBus ==
  /\ ctorThrows = FALSE /\ socks = <<>> /\ ws = 0 /\ shouldReconnect = TRUE
  /\ backoff = InitialBackoff * Scale /\ timers = <<>> /\ listeners = {}
  /\ notes = <<>> /\ posts = <<>> /\ relayUp = TRUE
  /\ sched = [n |-> 0, delay |-> 0, opened |-> FALSE]
  /\ transport = "none" /\ chanName = "" /\ rx = NoRx /\ destroyed = [calls |-> 0, raised |-> FALSE]

RelayOnlyInit == RelayInit /\ NoBus /\ NoLocal /\ NoPage

RelaySpec == RelayOnlyInit /\ [][RelayNext]_vars

\* The event loop runs the 'close' handler of every connection that is going
\* down; nothing makes a client connect, send or disconnect.
RelayFairSpec ==
  RelaySpec /\ WF_vars(\E s \in Sess : readyState[s] = CLOSING /\ OnClose(s))

\* One transport handle alone, against a relay that is not modelled further
\* than being reachable or not.
BusOnlyInit ==
  /\ BusInit /\ RelayInit
  /\ transport = "ws" /\ chanName = ChanNameOf("K7QRT") /\ rx = NoRx
  /\ destroyed = [calls |-> 0, raised |-> FALSE] /\ NoLocal /\ NoPage

BusSpec == BusOnlyInit /\ [][BusNext]_vars

\* The browser's event loop runs every timer that is due, time passes, a
\* connection attempt to a reachable relay opens, and a connection that is
\* closing gets its 'close' event.
BusFairSpec ==
  /\ BusSpec
  /\ WF_vars(Tick)
  /\ WF_vars(\E i \in 1..MaxSocks : TimerFire(i))
  /\ WF_vars(\E k \in 1..MaxSocks : OnOpen(k))
  /\ WF_vars(\E k \in DOMAIN socks :
               socks[k].rs = CLOSING /\ (SockFail(k) \/ SockClosed(k)))

\* The receive path of a relay handle: its connection opens, subscribers come
\* and go, and frames arrive from the relay.
RecvInit ==
  /\ BusInit /\ RelayInit
  /\ ~ctorThrows /\ relayUp
  /\ transport = "ws" /\ chanName \in {ChanNameOf(c) : c \in Codes} /\ rx = NoRx
  /\ destroyed = [calls |-> 0, raised |-> FALSE] /\ NoLocal /\ NoPage

RecvNext ==
  \/ \E k \in 1..MaxSocks : OnOpen(k)
  \/ \E cb \in Cbs : On(cb)
  \/ \E cb \in Cbs : Off(cb)
  \/ \E k \in 1..MaxSocks, d \in WireData : WsOnMessage(k, d)

RecvSpec == RecvInit /\ [][RecvNext]_vars

\* The handles of the local fallback, one in every context, all on one lobby
\* code; no relay handle exists.
LocalOnlyInit ==
  /\ LocalInit /\ RelayInit
  /\ ctorThrows = FALSE /\ socks = <<>> /\ ws = 0 /\ shouldReconnect = TRUE
  /\ backoff = InitialBackoff * Scale /\ timers = <<>> /\ listeners = {}
  /\ notes = <<>> /\ posts = <<>> /\ relayUp = TRUE
  /\ sched = [n |-> 0, delay |-> 0, opened |-> FALSE]
  /\ chanName = ChanNameOf("K7QRT") /\ rx = NoRx
  /\ destroyed = [calls |-> 0, raised |-> FALSE]
  /\ NoPage

LocalSpec == LocalOnlyInit /\ [][LocalNext]_vars

\* What mkBus(code, relayUrl) returns: a relay handle when relayUrl is a
\* ws:// or wss:// address, the local fallback otherwise; and the life of the
\* handle up to destroy(). A fallback handle's destroy reads and writes ch and
\* the storage listener only, which no post and no dispatched event changes:
\* they are left to LocalSpec.
HandleInit == BusOnlyInit \/ LocalOnlyInit

HandleNext ==
  \/ BusNext
  \/ \E c \in Ctx, cb \in Cbs : LocalOn(c, cb)
  \/ \E c \in Ctx, cb \in Cbs : LocalOff(c, cb)
  \/ \E c \in Ctx : LocalDestroy(c)

HandleSpec == HandleInit /\ [][HandleNext]_vars

\* No transport exists: the relay server has no session and mkBus has
\* returned no handle.
NoTransport ==
  /\ RelayInit /\ NoBus /\ NoLocal

\* The grading functions applied to a reaction time, thresholds and leniency.
GradeOnlyInit == GradeInit /\ NoTransport /\ NoApp /\ NoPlayer

GradeSpec == GradeOnlyInit /\ [][GradeNext]_vars

\* The application alone, from its first render; what its handles do on
\* the network is BusSpec and LocalSpec.
AppOnlyInit == AppInit /\ NoTransport /\ NoPlayer /\ NoGrade

AppSpec == AppOnlyInit /\ [][AppNext]_vars

\* The cue state of a player who has joined and holds a config (role is
\* "PLAYER" and cfg is set, as the cue callback and the view require).
PlayerOnlyInit == PlayerInit /\ NoTransport /\ NoApp /\ NoGrade

PlayerSpec == PlayerOnlyInit /\ [][PlayerNext]_vars

\* ------------------------------------------------ claims about the relay

\* The room a connection parameter pins a session to, as the wire protocol
\* states it: the `room` parameter, or the default room when there is none.
ExpectedRoom(u) == IF (~u.hasRoom) \/ u.room = "" THEN "default" ELSE u.room

\* The rooms of the registry whose session set holds s.
RoomsHolding(s) == {r \in DOMAIN rooms : s \in rooms[r]}

\* The step handles a 'message' event.
MessageStep == last'.seq # last.seq

\* C1: a message sent by session A registered in room R is forwarded exactly
\* once to every other session of R whose connection is open at that moment,
\* never back to A, and never to a session registered in another room.
C1_RelayFanOut ==
  [][MessageStep =>
       LET a == last'.from
       IN  /\ Cardinality(RoomsHolding(a)) = 1
           /\ \A R \in RoomsHolding(a) : \A p \in Sess :
                /\ (p # a /\ p \in rooms[R] /\ readyState[p] = OPEN)
                     => last'.sends[p] = 1
                /\ (p = a \/ p \notin rooms[R] \/ readyState[p] # OPEN)
                     => last'.sends[p] = 0
                /\ (\E R2 \in DOMAIN rooms : R2 # R /\ p \in rooms[R2])
                     => last'.sends[p] = 0]_vars

\* C1 witness: A's message reached an open session of its room while an open
\* session of another room got nothing.
C1_Witness ==
  \E a, p, q \in Sess :
    /\ last.from = a /\ last.sends[p] = 1 /\ last.sends[q] = 0
    /\ readyState[p] = OPEN /\ readyState[q] = OPEN
    /\ ExpectedRoom(reqUrl[q]) # ExpectedRoom(reqUrl[a])

\* C4: once session B has disconnected it is in no session set, and every
\* message sent afterwards goes only to sessions that are still registered in
\* the sender's room and open, never to B.
C4_DisconnectRemoves ==
  /\ [](\A b \in Sess : readyState[b] = CLOSED => RoomsHolding(b) = {})
  /\ [][MessageStep =>
          \A b \in Sess :
            /\ readyState[b] = CLOSED => last'.sends[b] = 0
            /\ last'.sends[b] > 0 =>
                 /\ readyState[b] = OPEN
                 /\ RoomsHolding(b) = RoomsHolding(last'.from)]_vars

\* C4 witness: B of room R had disconnected when A's message was handled; the
\* message reached C of R and not B.
C4_Witness ==
  \E a, b, c \in Sess :
    /\ last.from = a /\ b \in last.gone /\ b # c
    /\ ExpectedRoom(reqUrl[b]) = ExpectedRoom(reqUrl[a])
    /\ last.sends[c] = 1 /\ last.sends[b] = 0

\* C7 (as claimed): a room whose session set has become empty does not stay in
\* the registry for ever: it is removed, or joined again.
C7_EmptyRoomsRemoved ==
  \A r \in RoomIds :
    (r \in DOMAIN rooms /\ rooms[r] = {})
      ~> ~(r \in DOMAIN rooms /\ rooms[r] = {})

\* C8 (as claimed): an error on one session removes that session from its room
\* and nothing else: the server keeps running.
C8_ErrorIsolated ==
  \A s \in Sess : errored[s] => (serverUp /\ RoomsHolding(s) = {})

C10_SessionRoomPinned ==
  \A s \in Sess :
    IF readyState[s] \in {OPEN, CLOSING}
    THEN RoomsHolding(s) = {ExpectedRoom(reqUrl[s])}
    ELSE RoomsHolding(s) = {}

\* C10 witness: a session of the default room has sent a frame tagged with
\* another room and is still registered in the default room only.
C10_Witness ==
  \E s \in Sess :
    /\ last.from = s /\ last.frame.json
    /\ last.frame.room # ExpectedRoom(reqUrl[s])
    /\ readyState[s] = OPEN
    /\ RoomsHolding(s) = {"default"}

\* ------------------------------------- claims about the transport client

\* The handle's current connection, if it has one, is in state st.
CurrentIs(st) == ws # 0 /\ socks[ws].rs = st

\* C2 (as claimed): once destroy() has run no reconnect timer is pending and
\* no connection of the handle is open or being attempted.
C2_DestroyStopsReconnect ==
  ~shouldReconnect =>
    /\ timers = <<>>
    /\ \A k \in DOMAIN socks : socks[k].rs \notin {CONNECTING, OPEN}

\* C3: every delay handed to setTimeout is 500 ms when it is the first one or a
\* connection has opened since the one before, and otherwise 1.5 times the one
\* before, capped at 5000 ms; no delay exceeds 5000 ms.
C3_Backoff ==
  /\ [](sched.delay <= MaxDelay * Scale)
  /\ [][sched'.n # sched.n =>
          /\ timers'[Len(timers')].delay = sched'.delay
          /\ sched'.delay =
               IF sched.delay = 0 \/ sched.opened
               THEN 500 * Scale
               ELSE Min((sched.delay * 3) \div 2, 5000 * Scale)]_vars

\* C3 witness: after enough failed attempts in a row the delay has reached the
\* cap, not having been reset by a connection that opened.
C3_Witness ==
  /\ sched.delay = 5000 * Scale
  /\ ~sched.opened
  /\ backoff > 5000 * Scale

\* C5: a post(ev) made while no connection is open is never handed to ws.send
\* and raises nothing, and what became of a post never changes afterwards (no
\* later transmission, whatever the connection does).
C5_PostFireAndForget ==
  /\ [](\A i \in DOMAIN posts :
          (posts[i].conn = <<>> \/ posts[i].conn # <<OPEN>>)
            => (~posts[i].sent /\ ~posts[i].raised))
  /\ [][\A i \in DOMAIN posts :
          i \in DOMAIN posts' /\ posts'[i] = posts[i]]_vars

\* C5 witness: a post was dropped while a reconnect was pending; the handle
\* has reconnected since, its connection is open, and the post was not sent.
C5_Witness ==
  /\ Len(socks) >= 2 /\ CurrentIs(OPEN)
  /\ \E i \in DOMAIN posts : posts[i].conn = <<CLOSED>> /\ ~posts[i].sent

\* C6: a new connection is only attempted by a reconnect timer, whose delay of
\* at least 500 ms has elapsed; and if the handle is never destroyed and the
\* relay stays reachable from some time on, a closed connection leads to an
\* open one with status "open" delivered to the subscribers.
C6_AutoRecovery ==
  /\ [][Len(socks') > Len(socks) =>
          \E i \in DOMAIN timers :
            /\ timers[i].elapsed * TickMs >= 500
            /\ timers' = Remove(timers, i)]_vars
  /\ ([]shouldReconnect /\ <>[]relayUp) =>
       (CurrentIs(CLOSED)
          ~> (CurrentIs(OPEN) /\ notes = <<EmitStatus("open")>>))

\* C6 witness: a second connection of a handle that was not destroyed is open
\* and its subscribers have been told so.
C6_Witness ==
  /\ shouldReconnect /\ Len(socks) >= 2 /\ CurrentIs(OPEN)
  /\ listeners # {}
  /\ notes = <<EmitStatus("open")>>

\* C11 (as claimed): a frame whose room tag is the handle's room, or that has
\* none, has every registered callback invoked once with exactly the payload it
\* carries; a frame with another room tag, or one that cannot be deserialized,
\* invokes no callback; nothing is raised.
C11_ReceiveFilter ==
  rx.got =>
    LET d == rx.data
        m == d.val
        tagged == d.json /\ m.t = "object" /\ "room" \in DOMAIN m
        carries == d.json /\ m.t = "object" /\ "payload" \in DOMAIN m
    IN  /\ ~rx.raised
        /\ DOMAIN rx.calls = rx.subs
        /\ (carries /\ (~tagged \/ m.room = Str(chanName)))
             => \A cb \in rx.subs : rx.calls[cb] = <<m.payload>>
        /\ (~d.json \/ (tagged /\ m.room # Str(chanName)))
             => \A cb \in rx.subs : rx.calls[cb] = <<>>

\* The notifications of a step hold the status st, delivered to the
\* subscribers registered when the step was taken.
Notified(st) ==
  \E i \in DOMAIN notes' :
    notes'[i] = [type |-> "__STATUS__", state |-> st, to |-> listeners]

\* C12 (as claimed): the step in which a connection of the handle opens
\* delivers status "open" to all registered subscribers, the step in which a
\* connection attempt fails delivers "error", and the step in which a
\* connection becomes closed delivers "closed".
C12_StatusNotified ==
  [][\A k \in DOMAIN socks :
       /\ (socks[k].rs = CONNECTING /\ socks'[k].rs = OPEN) => Notified("open")
       /\ (socks[k].rs # CLOSED /\ socks'[k].rs = CLOSED)
            => /\ Notified("closed")
               /\ ~socks[k].opened => Notified("error")]_vars

\* The connections of the handle that are connecting or open.
Live == {k \in DOMAIN socks : socks[k].rs \in {CONNECTING, OPEN}}

\* C17: a relay handle never has more than one connection that is connecting
\* or open, nor more than one pending reconnect timer; and a connection is
\* created only by the one pending timer, which the close of the connection
\* before it scheduled: every earlier connection is closed by then.
C17_OneConnection ==
  /\ [](Cardinality(Live) <= 1 /\ Len(timers) <= 1)
  /\ [][Len(socks') > Len(socks) =>
          /\ Len(socks') = Len(socks) + 1
          /\ Len(timers) = 1 /\ timers' = <<>>
          /\ socks # <<>> /\ ws = Len(socks)
          /\ \A k \in DOMAIN socks : socks[k].rs = CLOSED]_vars

\* C17 witness: after errors, closes, timers and a destroy() the handle has
\* its third connection or a later one, the only one not closed.
C17_Witness ==
  /\ Len(socks) >= 3 /\ ~shouldReconnect
  /\ Live = {Len(socks)} /\ timers = <<>>
  /\ \A k \in 1..(Len(socks) - 1) : socks[k].rs = CLOSED

\* C18 (as claimed): a handle that has not been destroyed has a connection
\* that is connecting or open, or a pending reconnect timer.
C18_NeverStuck ==
  shouldReconnect => (Live # {} \/ timers # <<>>)

\* ------------------------------------ claims about the local fallback

\* The relay handle has been destroyed and has nothing left to close.
Settled ==
  /\ ~shouldReconnect
  /\ (ws = 0 \/ socks[ws].rs \in {CLOSING, CLOSED})

\* The fallback handle of context c has been destroyed.
LocalSettled(c) == ~storageOn[c] /\ ch[c] # "open"

\* Everything the handles hold; `notes` is what a step delivered, not state.
Held ==
  <<ctorThrows, socks, ws, shouldReconnect, backoff, timers, listeners, posts,
    sched, recvVars, localVars>>

C14_NoDuplicates ==
  \A c \in Ctx, cb \in Cbs, e \in DOMAIN published :
    /\ heard[c][cb][e] <= 1
    /\ published[e].by = c => heard[c][cb][e] = 0

\* ----------------------------------------------- claims about grading

\* Grades from best to worst.
Rank(g) ==
  CASE g = "Perfect" -> 0 [] g = "Success" -> 1 [] g = "Close call" -> 2
    [] g = "Slow" -> 3 [] g = "Failure" -> 4

Ordered(t) ==
  t.perfect <= t.success /\ t.success <= t.close /\ t.close <= t.slow

\* C16: gradeReaction returns the first grade, from Perfect to Slow, whose
\* threshold the reaction time does not exceed, and Failure when it exceeds
\* them all; for ordered thresholds no longer reaction time gets a better
\* grade; and gradeWithLeniency with leniency >= 0 gives no worse grade than
\* gradeReaction.
C16_Grading ==
  /\ graded.grade # "" =>
       /\ graded.grade =
            (IF graded.ms <= graded.t.perfect THEN "Perfect"
             ELSE IF graded.ms <= graded.t.success THEN "Success"
             ELSE IF graded.ms <= graded.t.close THEN "Close call"
             ELSE IF graded.ms <= graded.t.slow THEN "Slow"
             ELSE "Failure")
       /\ Ordered(graded.t) =>
            \A ms2 \in graded.ms..MaxMs :
              Rank(gradeReaction(ms2, graded.t)) >= Rank(graded.grade)
  /\ (graded.grade # "" /\ graded.lenient # "") =>
       Rank(graded.lenient) <= Rank(graded.grade)

\* C16 witness: with ordered thresholds and a leniency > 0 a reaction time was
\* graded Success by gradeReaction and Perfect by gradeWithLeniency.
C16_Witness ==
  /\ Ordered(graded.t) /\ graded.leniency > 0
  /\ graded.grade = "Success" /\ graded.lenient = "Perfect"

\* ------------------------------------------ claims about the application

\* The step is an Exit, and the step changes the lobby code.
Leaves == role # "none" /\ role' = "none"
ChangesCode == code' # code

\* C15 (as claimed): a step that adopts a lobby code makes a handle for it;
\* when the participant leaves or changes the lobby code the handle in use is
\* destroyed; and after leaving no handle of the lobby left is live.
C15_HandleLifecycle ==
  [][/\ (ChangesCode /\ code' # "") =>
          (busRef' # 0 /\ handles'[busRef'].code = code')
     /\ ((Leaves \/ ChangesCode) /\ busRef # 0) => handles'[busRef].destroyed
     /\ Leaves =>
          \A h \in DOMAIN handles' :
            handles'[h].code = code => handles'[h].destroyed]_vars

\* C19 (as claimed): every callback the application has registered is
\* registered on the handle busRef holds, not on one that was replaced.
C19_SubscribedToCurrent ==
  \A e \in {"events", "status", "cue"} :
    subOn[e] # 0 => subOn[e] = busRef

\* C20 (as claimed): a cue and a sequence are never active together, and
\* the step of a gap timer leaves no sequence active other than the one that
\* was active before it.
C20_CueXorSeq ==
  /\ [](activeCue = <<>> \/ activeSeq = <<>>)
  /\ [][(seqGapTimer # <<>> /\ seqGapTimer' = <<>> /\ activeSeq' # <<>>) =>
          (activeSeq # <<>> /\ activeSeq[1].id = activeSeq'[1].id)]_vars

====
